---------------------------- MODULE Spec2Model ----------------------------
(***************************************************************************)
(* A model of the genmesh Cube and Cylinder generators (cube.rs,           *)
(* cylinder.rs) and of the UV helpers (texture_coord.rs).                  *)
(*                                                                         *)
(* Numbers.  f32 values are modelled in fixed point: the integer n stands  *)
(* for n / FX.  All constants of the source (1/4, 1/3, 0.01, 0.25, 0.5,    *)
(* 0.75, 1) are exact multiples of 1/FX.  cos and sin are tabulated for    *)
(* the angles 2*pi*k/n the generators use.  usize/isize are modelled with  *)
(* Bits bits (two's complement), so that `as isize`, `as usize` and        *)
(* arithmetic overflow behave as in the source, scaled down.               *)
(*                                                                         *)
(* Build profile.  debug_assert! and the arithmetic overflow checks exist  *)
(* in debug builds only; `debug` is chosen in Init and never changes.      *)
(***************************************************************************)
EXTENDS Integers, Sequences, FiniteSets, TLC

VARIABLES
    debug,      \* TRUE: debug build (debug_assert!, overflow checks)
    gen,        \* the generator value: NoGen, a Cube or a Cylinder
    built,      \* history: the arguments (u, h) gen was constructed with
    yielded,    \* history: number of Some(..) results of next() so far
    prev,       \* history: the generator as it was before the last call
    out         \* the result of the last call

vars == <<debug, gen, built, yielded, prev, out>>

----------------------------------------------------------------------------
(* Bounds of the model *)

\* width of usize / isize in the model (64 in a 64-bit build)
Bits == 7
\* largest radial subdivision argument tried besides the huge ones
MaxU == 4
\* largest height subdivision argument tried besides the huge ones
MaxH == 3
\* how far past the largest valid count an index query may go
Past == 2

Word == 2 ^ Bits
IMax == (Word \div 2) - 1

\* arguments of the constructors
UArgs == 0 .. MaxU
HArgs == (0 .. MaxH) \cup {Word \div 2, Word - 1}
\* arguments of shared_vertex / indexed_polygon of a cylinder
MaxIdx == (3 + MaxH) * MaxU + 2 + Past
IdxArgs == 0 .. MaxIdx
\* arguments of shared_vertex / indexed_polygon of the cube
CubeIdxArgs == 0 .. (24 + Past)

----------------------------------------------------------------------------
(* Fixed point *)

FX == 12 * 1000

\* a * b for fixed-point a, b
FMul(a, b) == (a * b) \div FX
\* i / n for integers i, n converted to f32 (n # 0)
FRatio(i, n) == IF n > 0 THEN (i * FX) \div n ELSE ((0 - i) * FX) \div (0 - n)

\* (cos, sin) of 2*pi*k/n, times FX, rounded
TrigTable ==
  << << <<12000, 0>> >>,
     << <<12000, 0>>, <<-12000, 0>> >>,
     << <<12000, 0>>, <<-6000, 10392>>, <<-6000, -10392>> >>,
     << <<12000, 0>>, <<0, 12000>>, <<-12000, 0>>, <<0, -12000>> >>,
     << <<12000, 0>>, <<3708, 11413>>, <<-9708, 7053>>, <<-9708, -7053>>,
        <<3708, -11413>> >>,
     << <<12000, 0>>, <<6000, 10392>>, <<-6000, 10392>>, <<-12000, 0>>,
        <<-6000, -10392>>, <<6000, -10392>> >>,
     << <<12000, 0>>, <<7482, 9382>>, <<-2670, 11699>>, <<-10812, 5207>>,
        <<-10812, -5207>>, <<-2670, -11699>>, <<7482, -9382>> >>,
     << <<12000, 0>>, <<8485, 8485>>, <<0, 12000>>, <<-8485, 8485>>,
        <<-12000, 0>>, <<-8485, -8485>>, <<0, -12000>>, <<8485, -8485>> >> >>

\* an angle 2*pi*k/n is the pair <<k, n>> with 0 <= k < n
Cos(a) == TrigTable[a[2]][a[1] + 1][1]
Sin(a) == TrigTable[a[2]][a[1] + 1][2]

----------------------------------------------------------------------------
(* texture_coord.rs *)

UVRectNew(offset, scale) == [offset |-> offset, scale |-> scale]

UVRectCoord(rect, uv) ==
    << rect.offset[1] + FMul(rect.scale[1], uv[1]),
       rect.offset[2] + FMul(rect.scale[2], uv[2]) >>

UVCircleNew(offset, radius) == [offset |-> offset, radius |-> radius]

UVCircleCoord(circle, a) ==
    << circle.offset[1] + FMul(Cos(a), circle.radius),
       circle.offset[2] + FMul(Sin(a), circle.radius) >>

----------------------------------------------------------------------------
(* Polygons: a tag and the sequence of its elements, in order *)

Quad(x, y, z, w) == [tag |-> "Quad", v |-> <<x, y, z, w>>]
PolyQuad(x, y, z, w) == [tag |-> "PolyQuad", v |-> <<x, y, z, w>>]
PolyTri(x, y, z) == [tag |-> "PolyTri", v |-> <<x, y, z>>]
Vertex(pos, normal, uv) == [pos |-> pos, normal |-> normal, uv |-> uv]

----------------------------------------------------------------------------
(* cube.rs *)

CubeNewValue == [type |-> "Cube", start |-> 0, end |-> 6]

\* CubeVert with the y range 2...9 cut short to 2...8
CubeVertShortRange(idx) ==
    LET x == IF idx \in (0 .. 5) \cup (14 .. 17) \cup (20 .. 21)
             THEN FX ELSE 0 - FX
        y == IF idx \in (2 .. 8) \cup (17 .. 18) \cup {20, 23}
             THEN FX ELSE 0 - FX
        z == IF idx \in {0} \cup (3 .. 4) \cup (7 .. 8) \cup (11 .. 12)
                        \cup (15 .. 19)
             THEN FX ELSE 0 - FX
    IN  <<x, y, z>>

CubeVert(idx) ==
    LET x == IF idx \in (0 .. 5) \cup (14 .. 17) \cup (20 .. 21)
             THEN FX ELSE 0 - FX
        y == IF idx \in (2 .. 9) \cup (17 .. 18) \cup {20, 23}
             THEN FX ELSE 0 - FX
        z == IF idx \in {0} \cup (3 .. 4) \cup (7 .. 8) \cup (11 .. 12)
                        \cup (15 .. 19)
             THEN FX ELSE 0 - FX
    IN  <<x, y, z>>

CubeWIDTH == FX \div 4
CubeHEIGHT == FX \div 3

CubeUvOffset(idx) ==
    CASE idx \in 0 .. 3   -> <<CubeHEIGHT, 0>>
      [] idx \in 4 .. 7   -> <<CubeHEIGHT, CubeWIDTH>>
      [] idx \in 8 .. 11  -> <<CubeHEIGHT, CubeWIDTH * 2>>
      [] idx \in 12 .. 15 -> <<CubeHEIGHT, CubeWIDTH * 3>>
      [] idx \in 16 .. 19 -> <<CubeHEIGHT * 2, CubeWIDTH>>
      [] idx \in 20 .. 23 -> <<0, CubeWIDTH>>

CubeUv(idx) ==
    IF idx \notin 0 .. 23 THEN <<0, 0>>
    ELSE LET rect == UVRectNew(CubeUvOffset(idx), <<CubeWIDTH, CubeHEIGHT>>)
         IN  CASE idx % 4 = 0 -> UVRectCoord(rect, <<0, 0>>)
               [] idx % 4 = 1 -> UVRectCoord(rect, <<FX, 0>>)
               [] idx % 4 = 2 -> UVRectCoord(rect, <<FX, FX>>)
               [] idx % 4 = 3 -> UVRectCoord(rect, <<0, FX>>)

\* face_indexed panics for idx outside 0..5
CubeFaceIndexedPanics(idx) == idx \notin 0 .. 5

CubeFaceIndexed(idx) ==
    CASE idx = 0 -> [no |-> <<FX, 0, 0>>,     quad |-> Quad(0, 1, 2, 3)]
      [] idx = 1 -> [no |-> <<0, FX, 0>>,     quad |-> Quad(4, 5, 6, 7)]
      [] idx = 2 -> [no |-> <<0 - FX, 0, 0>>, quad |-> Quad(8, 9, 10, 11)]
      [] idx = 3 -> [no |-> <<0, 0 - FX, 0>>, quad |-> Quad(12, 13, 14, 15)]
      [] idx = 4 -> [no |-> <<0, 0, FX>>,     quad |-> Quad(16, 17, 18, 19)]
      [] idx = 5 -> [no |-> <<0, 0, 0 - FX>>, quad |-> Quad(20, 21, 22, 23)]

\* CubeFace with the uv looked up by the corner slot, not the vertex index
CubeFaceUvBySlot(idx) ==
    LET f == CubeFaceIndexed(idx)
    IN  [tag |-> f.quad.tag,
         v   |-> [k \in DOMAIN f.quad.v |->
                    Vertex(CubeVert(f.quad.v[k]), f.no, CubeUv(k - 1))]]

CubeFace(idx) ==
    LET f == CubeFaceIndexed(idx)
    IN  [tag |-> f.quad.tag,
         v   |-> [k \in DOMAIN f.quad.v |->
                    Vertex(CubeVert(f.quad.v[k]), f.no, CubeUv(f.quad.v[k]))]]

CubeSharedVertexPanics(idx) == CubeFaceIndexedPanics(idx \div 4)

CubeSharedVertex(idx) ==
    LET f   == CubeFaceIndexed(idx \div 4)
        vid == f.quad.v[(idx % 4) + 1]
    IN  Vertex(CubeVert(vid), f.no, CubeUv(idx))

CubeSharedVertexCount == 24

CubeIndexedPolygon(idx) ==
    Quad(idx * 4 + 0, idx * 4 + 1, idx * 4 + 2, idx * 4 + 3)

CubeIndexedPolygonCount == 6

----------------------------------------------------------------------------
(* Machine integers *)

\* x as isize, for a usize x
ToIsize(x) == IF x > IMax THEN x - Word ELSE x
\* i as usize, for an isize i; also the wrapping of a usize result
ToUsize(i) == i % Word

----------------------------------------------------------------------------
(* cylinder.rs *)

UV_GAP == FX \div 100
UV_TOP_CENTER == <<(FX \div 4) - UV_GAP, (FX \div 4) - UV_GAP>>
UV_BOTTOM_CENTER == <<(FX \div 4) - UV_GAP, ((3 * FX) \div 4) + UV_GAP>>
UV_RADIUS == (FX \div 4) - UV_GAP

\* assert!(u > 1)
CylinderNewPanics(u) == ~(u > 1)

CylinderNewValue(u) ==
    [type |-> "Cylinder", idx |-> 0, sub_u |-> u, sub_h |-> 1]

\* assert!(u > 1 && h > 0)
CylinderSubdividePanics(u, h) == ~(u > 1 /\ h > 0)

CylinderSubdivideValue(u, h) ==
    [type |-> "Cylinder", idx |-> 0, sub_u |-> u, sub_h |-> ToIsize(h)]

\* the debug_assert!s of vert
CylinderVertPanics(c, u, h) ==
    \/ ~(u <= c.sub_u)
    \/ h < 0 /\ h # -1
    \/ ~(h < 0) /\ h > c.sub_h /\ h # c.sub_h + 1

\* the side-wall UV rectangle of vert
CylinderSideRect ==
    UVRectNew(<<0, (FX \div 2) + UV_GAP>>, <<FX, (FX \div 2) - UV_GAP>>)

\* h_per taken from the height fraction h / sub_h
CylinderHPerByHeight(c, u, h) == FRatio(h, c.sub_h)

\* let h_per = u as f32 / self.sub_u as f32
CylinderHPer(c, u, h) == FRatio(u, c.sub_u)

CylinderVert(c, u, h) ==
    LET u_per == FRatio(u, c.sub_u)
        h_per == CylinderHPer(c, u, h)
        a     == <<u, c.sub_u>>
        n     == <<Cos(a), Sin(a), 0>>
        t     == IF h < 0
                 THEN [hc |-> 0, normal |-> <<0, 0, 0 - FX>>,
                       uv |-> UVCircleCoord(
                                UVCircleNew(UV_BOTTOM_CENTER, UV_RADIUS), a)]
                 ELSE IF h > c.sub_h
                 THEN [hc |-> c.sub_h, normal |-> <<0, 0, FX>>,
                       uv |-> UVCircleCoord(
                                UVCircleNew(UV_TOP_CENTER, UV_RADIUS), a)]
                 ELSE [hc |-> h, normal |-> n,
                       uv |-> UVRectCoord(CylinderSideRect, <<u_per, h_per>>)]
        z     == (FRatio(t.hc, c.sub_h) * 2) - FX
    IN  Vertex(<<n[1], n[2], z>>, t.normal, t.uv)

\* (3 + self.sub_h) as usize * self.sub_u + 2, before wrapping
CylinderSharedVertexCountRaw(c) == (ToUsize(3 + c.sub_h) * c.sub_u) + 2

CylinderSharedVertexCountOverflows(c) ==
    \/ 3 + c.sub_h > IMax
    \/ CylinderSharedVertexCountRaw(c) >= Word

CylinderSharedVertexCount(c) == ToUsize(CylinderSharedVertexCountRaw(c))

\* (2 + self.sub_h) as usize * self.sub_u, before wrapping
CylinderIndexedPolygonCountRaw(c) == ToUsize(2 + c.sub_h) * c.sub_u

CylinderIndexedPolygonCountOverflows(c) ==
    \/ 2 + c.sub_h > IMax
    \/ CylinderIndexedPolygonCountRaw(c) >= Word

\* indexed_polygon_count without the top-cap wedges
CylinderIndexedPolygonCountNoTop(c) == ToUsize(ToUsize(1 + c.sub_h) * c.sub_u)

CylinderIndexedPolygonCount(c) == ToUsize(CylinderIndexedPolygonCountRaw(c))

\* the debug-build panics of shared_vertex: overflow, debug_assert!
CylinderSharedVertexPanics(c, idx) ==
    /\ idx # 0
    /\ \/ CylinderSharedVertexCountOverflows(c)
       \/ /\ idx # CylinderSharedVertexCount(c) - 1
          /\ CylinderVertPanics(c, (idx - 1) % c.sub_u,
                                ToIsize((idx - 1) \div c.sub_u) - 1)

CylinderSharedVertex(c, idx) ==
    IF idx = 0
    THEN Vertex(<<0, 0, 0 - FX>>, <<0, 0, 0 - FX>>, UV_BOTTOM_CENTER)
    ELSE IF idx = ToUsize(CylinderSharedVertexCount(c) - 1)
    THEN Vertex(<<0, 0, FX>>, <<0, 0, FX>>, UV_TOP_CENTER)
    ELSE LET i == idx - 1
             u == i % c.sub_u
             h == ToIsize(i \div c.sub_u) - 1
         IN  CylinderVert(c, u, h)

\* u1 without the wrap to column 0
CylinderU1NoWrap(c, idx) == (idx % c.sub_u) + 1

\* let u1 = (idx + 1) % self.sub_u
CylinderU1(c, idx) == ToUsize(idx + 1) % c.sub_u

\* the top cap built on the last side ring instead of the next loop
CylinderTopBaseSameLoop(c, base) == base

\* let base = base + self.sub_u (the top cap selects the next vertex loop)
CylinderTopBase(c, base) == ToUsize(base + c.sub_u)

\* the debug-build overflow panics of indexed_polygon
CylinderIndexedPolygonPanics(c, idx) ==
    LET u    == idx % c.sub_u
        u1   == CylinderU1(c, idx)
        h    == ToIsize(idx \div c.sub_u) - 1
        base == ToUsize((1 + idx) - u)
    IN  \/ idx + 1 >= Word
        \/ h < 0 /\ (base + u >= Word \/ base + u1 >= Word)
        \/ /\ ~(h < 0) /\ h = c.sub_h
           /\ \/ base + c.sub_u >= Word
              \/ base + c.sub_u + u >= Word
              \/ base + c.sub_u + u1 >= Word
              \/ CylinderSharedVertexCountOverflows(c)
        \/ /\ ~(h < 0) /\ h # c.sub_h
           /\ \/ base + u >= Word
              \/ base + u1 >= Word
              \/ base + u1 + c.sub_u >= Word
              \/ base + u + c.sub_u >= Word

CylinderIndexedPolygon(c, idx) ==
    LET u    == idx % c.sub_u
        u1   == CylinderU1(c, idx)
        h    == ToIsize(idx \div c.sub_u) - 1
        base == ToUsize((1 + idx) - u)
    IN  IF h < 0
        THEN PolyTri(ToUsize(base + u), 0, ToUsize(base + u1))
        ELSE IF h = c.sub_h
        THEN LET base2 == CylinderTopBase(c, base)
                 end   == ToUsize(CylinderSharedVertexCount(c) - 1)
             IN  PolyTri(ToUsize(base2 + u), ToUsize(base2 + u1), end)
        ELSE PolyQuad(ToUsize(base + u),
                      ToUsize(base + u1),
                      ToUsize(base + u1 + c.sub_u),
                      ToUsize(base + u + c.sub_u))

\* the item of next(): indexed_polygon(idx).map_vertex(|i| shared_vertex(i))
CylinderNextItem(c, idx) ==
    LET p == CylinderIndexedPolygon(c, idx)
    IN  [tag |-> p.tag,
         v   |-> [k \in DOMAIN p.v |-> CylinderSharedVertex(c, p.v[k])]]

\* the debug-build panics of next() after self.idx += 1
CylinderNextItemPanics(c, idx) ==
    \/ CylinderIndexedPolygonPanics(c, idx)
    \/ LET p == CylinderIndexedPolygon(c, idx)
       IN  \E k \in DOMAIN p.v : CylinderSharedVertexPanics(c, p.v[k])

----------------------------------------------------------------------------
(* The program: one generator is constructed, then queried and iterated.  *)
(* A panic ends the program: no call follows it.                          *)

NoGen == [type |-> "None"]
NoCall == [u |-> 0, h |-> 0]
Result(op, arg, kind, val) == [op |-> op, arg |-> arg, kind |-> kind, val |-> val]
Panic(op, arg) == Result(op, arg, "panic", <<>>)
Live == out.kind # "panic"
IsCube == gen.type = "Cube"
IsCylinder == gen.type = "Cylinder"

Init ==
    /\ debug \in BOOLEAN
    /\ gen = NoGen
    /\ built = NoCall
    /\ yielded = 0
    /\ prev = NoGen
    /\ out = Result("none", <<>>, "init", <<>>)

CubeNew ==
    /\ Live /\ gen = NoGen
    /\ prev' = gen
    /\ gen' = CubeNewValue
    /\ built' = NoCall
    /\ out' = Result("new", <<>>, "value", CubeNewValue)
    /\ UNCHANGED <<debug, yielded>>

CubeNext ==
    /\ Live /\ IsCube
    /\ prev' = gen
    /\ IF gen.start < gen.end
       THEN /\ gen' = [gen EXCEPT !.start = gen.start + 1]
            /\ out' = Result("next", <<>>, "some", CubeFace(gen.start))
            /\ yielded' = yielded + 1
       ELSE /\ out' = Result("next", <<>>, "none", <<>>)
            /\ UNCHANGED <<gen, yielded>>
    /\ UNCHANGED <<debug, built>>

CubeSizeHint ==
    /\ Live /\ IsCube
    /\ prev' = gen
    /\ LET n == IF gen.start < gen.end THEN gen.end - gen.start ELSE 0
       IN  out' = Result("size_hint", <<>>, "value", <<n, n>>)
    /\ UNCHANGED <<debug, gen, built, yielded>>

CubeSharedVertexCall(idx) ==
    /\ Live /\ IsCube
    /\ prev' = gen
    /\ out' = IF CubeSharedVertexPanics(idx)
              THEN Panic("shared_vertex", idx)
              ELSE Result("shared_vertex", idx, "value", CubeSharedVertex(idx))
    /\ UNCHANGED <<debug, gen, built, yielded>>

CubeSharedVertexCountCall ==
    /\ Live /\ IsCube
    /\ prev' = gen
    /\ out' = Result("shared_vertex_count", <<>>, "value", CubeSharedVertexCount)
    /\ UNCHANGED <<debug, gen, built, yielded>>

CubeIndexedPolygonCall(idx) ==
    /\ Live /\ IsCube
    /\ prev' = gen
    /\ out' = Result("indexed_polygon", idx, "value", CubeIndexedPolygon(idx))
    /\ UNCHANGED <<debug, gen, built, yielded>>

CubeIndexedPolygonCountCall ==
    /\ Live /\ IsCube
    /\ prev' = gen
    /\ out' = Result("indexed_polygon_count", <<>>, "value",
                     CubeIndexedPolygonCount)
    /\ UNCHANGED <<debug, gen, built, yielded>>

CylinderNew(u) ==
    /\ Live /\ gen = NoGen
    /\ prev' = gen
    /\ built' = [u |-> u, h |-> 1]
    /\ IF CylinderNewPanics(u)
       THEN /\ out' = Panic("new", <<u>>)
            /\ UNCHANGED gen
       ELSE /\ gen' = CylinderNewValue(u)
            /\ out' = Result("new", <<u>>, "value", CylinderNewValue(u))
    /\ UNCHANGED <<debug, yielded>>

CylinderSubdivide(u, h) ==
    /\ Live /\ gen = NoGen
    /\ prev' = gen
    /\ built' = [u |-> u, h |-> h]
    /\ IF CylinderSubdividePanics(u, h)
       THEN /\ out' = Panic("subdivide", <<u, h>>)
            /\ UNCHANGED gen
       ELSE /\ gen' = CylinderSubdivideValue(u, h)
            /\ out' = Result("subdivide", <<u, h>>, "value",
                             CylinderSubdivideValue(u, h))
    /\ UNCHANGED <<debug, yielded>>

CylinderNext ==
    /\ Live /\ IsCylinder
    /\ prev' = gen
    /\ IF debug /\ CylinderIndexedPolygonCountOverflows(gen)
       THEN /\ out' = Panic("next", <<>>)
            /\ UNCHANGED <<gen, yielded>>
       ELSE IF gen.idx < CylinderIndexedPolygonCount(gen)
       THEN /\ gen' = [gen EXCEPT !.idx = gen.idx + 1]
            /\ IF debug /\ CylinderNextItemPanics(gen, gen.idx)
               THEN /\ out' = Panic("next", <<>>)
                    /\ UNCHANGED yielded
               ELSE /\ out' = Result("next", <<>>, "some",
                                     CylinderNextItem(gen, gen.idx))
                    /\ yielded' = yielded + 1
       ELSE /\ out' = Result("next", <<>>, "none", <<>>)
            /\ UNCHANGED <<gen, yielded>>
    /\ UNCHANGED <<debug, built>>

CylinderSizeHint ==
    /\ Live /\ IsCylinder
    /\ prev' = gen
    /\ out' = IF debug /\ CylinderIndexedPolygonCountOverflows(gen)
              THEN Panic("size_hint", <<>>)
              ELSE LET n == ToUsize(CylinderIndexedPolygonCount(gen) - gen.idx)
                   IN  Result("size_hint", <<>>, "value", <<n, n>>)
    /\ UNCHANGED <<debug, gen, built, yielded>>

CylinderSharedVertexCall(idx) ==
    /\ Live /\ IsCylinder
    /\ prev' = gen
    /\ out' = IF debug /\ CylinderSharedVertexPanics(gen, idx)
              THEN Panic("shared_vertex", idx)
              ELSE Result("shared_vertex", idx, "value",
                          CylinderSharedVertex(gen, idx))
    /\ UNCHANGED <<debug, gen, built, yielded>>

CylinderSharedVertexCountCall ==
    /\ Live /\ IsCylinder
    /\ prev' = gen
    /\ out' = IF debug /\ CylinderSharedVertexCountOverflows(gen)
              THEN Panic("shared_vertex_count", <<>>)
              ELSE Result("shared_vertex_count", <<>>, "value",
                          CylinderSharedVertexCount(gen))
    /\ UNCHANGED <<debug, gen, built, yielded>>

CylinderIndexedPolygonCall(idx) ==
    /\ Live /\ IsCylinder
    /\ prev' = gen
    /\ out' = IF debug /\ CylinderIndexedPolygonPanics(gen, idx)
              THEN Panic("indexed_polygon", idx)
              ELSE Result("indexed_polygon", idx, "value",
                          CylinderIndexedPolygon(gen, idx))
    /\ UNCHANGED <<debug, gen, built, yielded>>

CylinderIndexedPolygonCountCall ==
    /\ Live /\ IsCylinder
    /\ prev' = gen
    /\ out' = IF debug /\ CylinderIndexedPolygonCountOverflows(gen)
              THEN Panic("indexed_polygon_count", <<>>)
              ELSE Result("indexed_polygon_count", <<>>, "value",
                          CylinderIndexedPolygonCount(gen))
    /\ UNCHANGED <<debug, gen, built, yielded>>

Next ==
    \/ CubeNew
    \/ CubeNext
    \/ CubeSizeHint
    \/ \E idx \in CubeIdxArgs : CubeSharedVertexCall(idx)
    \/ CubeSharedVertexCountCall
    \/ \E idx \in CubeIdxArgs : CubeIndexedPolygonCall(idx)
    \/ CubeIndexedPolygonCountCall
    \/ \E u \in UArgs : CylinderNew(u)
    \/ \E u \in UArgs, h \in HArgs : CylinderSubdivide(u, h)
    \/ CylinderNext
    \/ CylinderSizeHint
    \/ \E idx \in IdxArgs : CylinderSharedVertexCall(idx)
    \/ CylinderSharedVertexCountCall
    \/ \E idx \in IdxArgs : CylinderIndexedPolygonCall(idx)
    \/ CylinderIndexedPolygonCountCall

Spec == Init /\ [][Next]_vars

----------------------------------------------------------------------------
(* Notions the properties share *)

\* a cylinder that satisfies the invariant of its parameters
ValidCylinder == IsCylinder /\ gen.sub_u > 1 /\ gen.sub_h > 0

Cursor(g) ==
    CASE g.type = "Cube" -> g.start
      [] g.type = "Cylinder" -> g.idx
      [] OTHER -> 0

\* the polygon counts and vertex counts as the documentation gives them
DocPolygonCount == IF IsCube THEN 6 ELSE (2 + gen.sub_h) * gen.sub_u
DocVertexCount == IF IsCube THEN 24 ELSE ((3 + gen.sub_h) * gen.sub_u) + 2

\* indexed_polygon_count() of the generator
CodePolygonCount ==
    IF IsCube THEN CubeIndexedPolygonCount
    ELSE CylinderIndexedPolygonCount(gen)

\* indexed_polygon(k) with each index i replaced by shared_vertex(i)
Resolved(k) ==
    IF IsCube
    THEN LET p == CubeIndexedPolygon(k)
         IN  [tag |-> p.tag,
              v |-> [j \in DOMAIN p.v |-> CubeSharedVertex(p.v[j])]]
    ELSE LET p == CylinderIndexedPolygon(gen, k)
         IN  [tag |-> p.tag,
              v |-> [j \in DOMAIN p.v |-> CylinderSharedVertex(gen, p.v[j])]]

Dot(a, b) == (a[1] * b[1]) + (a[2] * b[2]) + (a[3] * b[3])
Cross(a, b) ==
    << (a[2] * b[3]) - (a[3] * b[2]),
       (a[3] * b[1]) - (a[1] * b[3]),
       (a[1] * b[2]) - (a[2] * b[1]) >>
Sub3(a, b) == <<a[1] - b[1], a[2] - b[2], a[3] - b[3]>>
\* a vector of whole numbers of FX, in units
Units(a) == [j \in DOMAIN a |-> a[j] \div FX]

----------------------------------------------------------------------------
(* C1 *)

\* C1: the k-th polygon yielded by next() on a fresh generator equals,
\* field by field and in the same vertex order, indexed_polygon(k) with
\* every index i replaced by shared_vertex(i), for every k below the
\* polygon count (Cube and every constructed Cylinder).
C1_IterationEqualsIndexed ==
    (out.op = "next" /\ out.kind = "some") =>
        /\ yielded - 1 \in 0 .. (CodePolygonCount - 1)
        /\ out.val = Resolved(yielded - 1)

\* the last face of the cube and the last top-cap wedge of a cylinder
\* with more than one side ring have been yielded
C1_Witness ==
    /\ out.op = "next" /\ out.kind = "some"
    /\ \/ IsCube /\ yielded = 6 /\ out.val.v[4].uv = CubeUv(23)
       \/ ValidCylinder /\ gen.sub_h > 1 /\ yielded = DocPolygonCount
          /\ out.val.tag = "PolyTri"

----------------------------------------------------------------------------
(* C2 *)

CubeFaceUvs(f) == {CubeSharedVertex((4 * f) + k).uv : k \in 0 .. 3}
SetMin(S) == CHOOSE x \in S : \A y \in S : x <= y
SetMax(S) == CHOOSE x \in S : \A y \in S : x >= y
\* the rectangle spanned by the uv of shared vertices 4f .. 4f+3
CubeFaceRect(f) ==
    LET xs == {p[1] : p \in CubeFaceUvs(f)}
        ys == {p[2] : p \in CubeFaceUvs(f)}
    IN  [x0 |-> SetMin(xs), x1 |-> SetMax(xs),
         y0 |-> SetMin(ys), y1 |-> SetMax(ys)]
\* one cell of the grid of 4 columns and 3 rows over the unit square
IsGridCell(r) ==
    \E col \in 0 .. 3, row \in 0 .. 2 :
        /\ r.x0 = col * (FX \div 4) /\ r.x1 = (col + 1) * (FX \div 4)
        /\ r.y0 = row * (FX \div 3) /\ r.y1 = (row + 1) * (FX \div 3)
InteriorsMeet(r, s) ==
    /\ r.x0 < s.x1 /\ s.x0 < r.x1
    /\ r.y0 < s.y1 /\ s.y0 < r.y1

\* C2: the UV rectangle of each of the 6 cube faces is exactly one cell of
\* a grid of 4 columns by 3 rows over the unit texture square, and no two
\* of the 6 rectangles overlap.
C2_FacesTileGrid ==
    IsCube =>
        /\ \A f \in 0 .. 5 : IsGridCell(CubeFaceRect(f))
        /\ \A f, g \in 0 .. 5 :
              f # g => ~InteriorsMeet(CubeFaceRect(f), CubeFaceRect(g))

----------------------------------------------------------------------------
(* C3 *)

\* C3: every out-of-range index query panics and never returns a value:
\* shared_vertex(idx) with idx >= shared_vertex_count(), indexed_polygon(idx)
\* with idx >= indexed_polygon_count() (Cube: 24 and 6; Cylinder(u,h):
\* (3+h)*u+2 and (2+h)*u).
C3_OutOfRangePanics ==
    (IsCube \/ ValidCylinder) =>
        /\ (out.op = "shared_vertex" /\ out.arg >= DocVertexCount)
              => out.kind = "panic"
        /\ (out.op = "indexed_polygon" /\ out.arg >= DocPolygonCount)
              => out.kind = "panic"

----------------------------------------------------------------------------
(* C5 *)

\* the outward normal of face f as the face table documents it
CubeFaceAxis(f) ==
    CASE f = 0 -> <<1, 0, 0>>
      [] f = 1 -> <<0, 1, 0>>
      [] f = 2 -> <<-1, 0, 0>>
      [] f = 3 -> <<0, -1, 0>>
      [] f = 4 -> <<0, 0, 1>>
      [] f = 5 -> <<0, 0, -1>>
CubeCorner(f, k) == Units(CubeSharedVertex((4 * f) + (k % 4)).pos)
CubeCorners == {<<x, y, z>> : x \in {-1, 1}, y \in {-1, 1}, z \in {-1, 1}}

\* C5: for every cube face f the positions of shared vertices 4f .. 4f+3
\* are four distinct points with every coordinate +1 or -1, all on the face
\* plane of the face normal (0 +X, 1 +Y, 2 -X, 3 -Y, 4 +Z, 5 -Z), listed
\* counter-clockwise seen from outside (at each corner the cross product of
\* the incoming and the outgoing edge is a positive multiple of the
\* normal); each of the 8 cube corners occurs exactly 3 times among the 24
\* shared vertices.
C5_CubeFaceGeometry ==
    IsCube =>
        /\ \A f \in 0 .. 5 :
              LET n == CubeFaceAxis(f)
              IN  /\ \A k \in 0 .. 3 :
                        /\ CubeSharedVertex((4 * f) + k).pos
                              \in {<<x, y, z>> : x \in {FX, 0 - FX},
                                                 y \in {FX, 0 - FX},
                                                 z \in {FX, 0 - FX}}
                        /\ CubeSharedVertex((4 * f) + k).normal
                              = <<n[1] * FX, n[2] * FX, n[3] * FX>>
                        /\ Dot(CubeCorner(f, k), n) = 1
                        /\ LET in == Sub3(CubeCorner(f, k), CubeCorner(f, k + 3))
                               ou == Sub3(CubeCorner(f, k + 1), CubeCorner(f, k))
                               x  == Cross(in, ou)
                           IN  /\ Dot(x, n) > 0
                               /\ x = <<Dot(x, n) * n[1], Dot(x, n) * n[2],
                                        Dot(x, n) * n[3]>>
                  /\ Cardinality({CubeCorner(f, k) : k \in 0 .. 3}) = 4
        /\ \A c \in CubeCorners :
              Cardinality({i \in 0 .. 23 :
                              Units(CubeSharedVertex(i).pos) = c}) = 3

\* shared vertex 23, the last corner of the -Z face, has been queried
C5_Witness ==
    /\ IsCube /\ out.op = "shared_vertex" /\ out.kind = "value"
    /\ out.arg = 23
    /\ out.val.pos = <<0 - FX, FX, 0 - FX>>
    /\ out.val.normal = <<0, 0, 0 - FX>>

----------------------------------------------------------------------------
(* C4 *)

\* C4: Cylinder::new(u) returns only when u > 1 and Cylinder::subdivide(u,h)
\* only when u > 1 and h > 0, otherwise construction aborts; whenever
\* construction returns, the stored sub_u and sub_h satisfy sub_u > 1 and
\* sub_h > 0 in every reachable state, and no call changes them.
C4_ParametersValid ==
    /\ (out.op = "new" /\ out.arg # <<>> /\ ~(out.arg[1] > 1))
          => (out.kind = "panic" /\ gen = NoGen)
    /\ (out.op = "subdivide" /\ ~(out.arg[1] > 1 /\ out.arg[2] > 0))
          => (out.kind = "panic" /\ gen = NoGen)
    /\ IsCylinder =>
          /\ built.u > 1 /\ built.h > 0
          /\ gen.sub_u > 1 /\ gen.sub_h > 0
          /\ prev.type = "Cylinder" =>
                (gen.sub_u = prev.sub_u /\ gen.sub_h = prev.sub_h)

----------------------------------------------------------------------------
(* Shared-vertex indices of a cylinder, as the documentation lays them out *)

SouthPole == 0
BottomRing(c) == 1 + c
SideRing(r, c) == 1 + ((r + 1) * gen.sub_u) + c
TopRing(c) == 1 + ((gen.sub_h + 2) * gen.sub_u) + c
NorthPole == ((3 + gen.sub_h) * gen.sub_u) + 1
Columns == 0 .. (gen.sub_u - 1)

----------------------------------------------------------------------------
(* C6 *)

\* C6: for every valid Cylinder(u,h) and polygon index idx < (2+h)*u, with
\* c = idx mod u and c1 = (c+1) mod u: if idx < u the polygon is the
\* triangle (bottom ring c, south pole, bottom ring c1), all normals
\* (0,0,-1) and z = -1; if idx >= (1+h)*u it is the triangle (top ring c,
\* top ring c1, north pole), all normals (0,0,1) and z = +1; otherwise it is
\* the quad of side-wall vertices (radial normal, z-component 0) at columns
\* c, c1 of side ring r and c1, c of side ring r+1, r = idx div u - 1 and
\* 0 <= r < h.  No polygon mixes cap-normal and side-normal vertices.
C6_PolygonStructure ==
    (ValidCylinder /\ out.op = "indexed_polygon"
                   /\ out.arg < DocPolygonCount) =>
        /\ out.kind = "value"
        /\  LET idx == out.arg
                u  == gen.sub_u
                h  == gen.sub_h
                c  == idx % u
                c1 == (c + 1) % u
                r  == (idx \div u) - 1
                p  == out.val
                vs == [j \in DOMAIN p.v |-> CylinderSharedVertex(gen, p.v[j])]
                IsCap(v) == v.normal \in {<<0, 0, FX>>, <<0, 0, 0 - FX>>}
            IN  /\ IF idx < u
                   THEN /\ p = PolyTri(BottomRing(c), SouthPole, BottomRing(c1))
                        /\ \A j \in DOMAIN vs :
                              /\ vs[j].normal = <<0, 0, 0 - FX>>
                              /\ vs[j].pos[3] = 0 - FX
                   ELSE IF idx >= (1 + h) * u
                   THEN /\ p = PolyTri(TopRing(c), TopRing(c1), NorthPole)
                        /\ \A j \in DOMAIN vs :
                              /\ vs[j].normal = <<0, 0, FX>>
                              /\ vs[j].pos[3] = FX
                   ELSE /\ 0 <= r /\ r < h
                        /\ p = PolyQuad(SideRing(r, c), SideRing(r, c1),
                                        SideRing(r + 1, c1), SideRing(r + 1, c))
                        /\ \A j \in DOMAIN vs :
                              /\ vs[j].normal[3] = 0
                              /\ vs[j].normal =
                                    <<vs[j].pos[1], vs[j].pos[2], 0>>
                        /\ vs[1].normal = <<Cos(<<c, u>>), Sin(<<c, u>>), 0>>
                        /\ vs[2].normal = <<Cos(<<c1, u>>), Sin(<<c1, u>>), 0>>
                        /\ vs[3].normal = vs[2].normal
                        /\ vs[4].normal = vs[1].normal
                /\ (\A j \in DOMAIN vs : IsCap(vs[j]))
                      \/ (\A j \in DOMAIN vs : ~IsCap(vs[j]))

\* the top-cap wedge at the seam (last column, wrapping to column 0) of a
\* cylinder with more than one side ring has been queried
C6_Witness ==
    /\ ValidCylinder /\ gen.sub_h > 1
    /\ out.op = "indexed_polygon" /\ out.kind = "value"
    /\ out.arg = DocPolygonCount - 1
    /\ out.val = PolyTri(TopRing(gen.sub_u - 1), TopRing(0), NorthPole)

----------------------------------------------------------------------------
(* C7 *)

ReferencedIndices ==
    UNION { LET p == CylinderIndexedPolygon(gen, idx)
            IN  {p.v[j] : j \in DOMAIN p.v} :
            idx \in 0 .. (CylinderIndexedPolygonCount(gen) - 1) }

\* C7: for every valid Cylinder(u,h) the vertex indices referenced by the
\* polygons indexed_polygon(0) .. indexed_polygon(indexed_polygon_count()-1)
\* are exactly 0 .. shared_vertex_count()-1, with shared_vertex_count() =
\* (3+h)*u + 2: every referenced index is in range and every shared vertex
\* is referenced by at least one polygon.
C7_IndicesCoverVertices ==
    (ValidCylinder /\ out.op = "shared_vertex_count") =>
        /\ out.kind = "value"
        /\ out.val = ((3 + gen.sub_h) * gen.sub_u) + 2
        /\ ReferencedIndices = 0 .. (out.val - 1)

\* shared_vertex_count() has been called on a cylinder with several side
\* rings and returned (3+h)*u + 2
C7_Witness ==
    /\ ValidCylinder /\ gen.sub_h > 1 /\ gen.sub_u > 2
    /\ out.op = "shared_vertex_count" /\ out.kind = "value"
    /\ out.val = Cardinality(ReferencedIndices)

----------------------------------------------------------------------------
(* C8 *)

\* C8: from a fresh generator (Cube, or a valid Cylinder(u,h)) next() yields
\* exactly indexed_polygon_count() polygons (6, or (2+h)*u) in ascending
\* polygon-index order and None ever after; the cursor never decreases, is
\* at most the polygon count, is left unchanged by a next() that returns
\* None, and size_hint() returns (count - number already yielded) as both
\* bounds.
C8_Iteration ==
    (IsCube \/ ValidCylinder) =>
        /\ Cursor(gen) <= DocPolygonCount
        /\ Cursor(gen) >= Cursor(prev)
        /\ Cursor(gen) = yielded
        /\ CodePolygonCount = DocPolygonCount
        /\ (out.op = "next") =>
              /\ out.kind \in {"some", "none"}
              /\ (out.kind = "some") =>
                    /\ Cursor(prev) < DocPolygonCount
                    /\ Cursor(gen) = Cursor(prev) + 1
                    /\ out.val = Resolved(Cursor(prev))
              /\ (out.kind = "none") =>
                    /\ Cursor(prev) = DocPolygonCount
                    /\ gen = prev
        /\ (out.op = "size_hint") =>
              /\ out.kind = "value"
              /\ out.val = <<DocPolygonCount - yielded,
                             DocPolygonCount - yielded>>

\* a cylinder with several side rings has yielded all its polygons and the
\* following next() returned None
C8_Witness ==
    /\ ValidCylinder /\ gen.sub_h > 1
    /\ out.op = "next" /\ out.kind = "none"
    /\ yielded = (2 + gen.sub_h) * gen.sub_u
    /\ gen.idx = yielded

----------------------------------------------------------------------------
(* C9 *)

\* the side strip rectangle: offset (0, 0.5 + UV_GAP), scale (1, 0.5 - UV_GAP)
SideStrip ==
    UVRectNew(<<0, (FX \div 2) + (FX \div 100)>>,
              <<FX, (FX \div 2) - (FX \div 100)>>)

\* C9: for every valid Cylinder(u,h) and every side-wall vertex (column c,
\* ring r, 0 <= r <= h) the uv is the side strip rectangle applied to
\* (c/u, c/u): the height parameter is the radial fraction and does not
\* depend on r, so two side-wall vertices of one column have the same uv.
C9_SideUvIgnoresRing ==
    (ValidCylinder /\ out.op = "shared_vertex") =>
        \A c \in Columns, r \in 0 .. gen.sub_h :
            (out.arg = SideRing(r, c)) =>
                /\ out.kind = "value"
                /\ out.val.uv =
                      UVRectCoord(SideStrip,
                                  <<FRatio(c, gen.sub_u), FRatio(c, gen.sub_u)>>)
                /\ \A q \in 0 .. gen.sub_h :
                      CylinderSharedVertex(gen, SideRing(q, c)).uv = out.val.uv

\* a side-wall vertex of the last ring, not in column 0, has been queried
\* and carries the uv of the vertex below it in ring 0
C9_Witness ==
    /\ ValidCylinder
    /\ out.op = "shared_vertex" /\ out.kind = "value"
    /\ \E c \in Columns \ {0} :
          /\ out.arg = SideRing(gen.sub_h, c)
          /\ out.val.uv = CylinderSharedVertex(gen, SideRing(0, c)).uv
          /\ out.val.pos[3] = FX
          /\ CylinderSharedVertex(gen, SideRing(0, c)).pos[3] = 0 - FX

----------------------------------------------------------------------------
(* C10 *)

Sq(x) == x * x
Clamp(x, lo, hi) == IF x < lo THEN lo ELSE IF x > hi THEN hi ELSE x
TopDisc == [c |-> UV_TOP_CENTER, r |-> UV_RADIUS]
BottomDisc == [c |-> UV_BOTTOM_CENTER, r |-> UV_RADIUS]
SideBox == [x0 |-> 0, x1 |-> FX, y0 |-> (FX \div 2) + UV_GAP, y1 |-> FX]
\* the point p is inside or on the disc d
InDisc(p, d) == Sq(p[1] - d.c[1]) + Sq(p[2] - d.c[2]) <= Sq(d.r)
\* the point p is inside the box b
InBox(p, b) == b.x0 < p[1] /\ p[1] < b.x1 /\ b.y0 < p[2] /\ p[2] < b.y1
DiscsApart(d, e) ==
    Sq(d.c[1] - e.c[1]) + Sq(d.c[2] - e.c[2]) > Sq(d.r + e.r)
DiscApartFromBox(d, b) ==
    Sq(d.c[1] - Clamp(d.c[1], b.x0, b.x1))
       + Sq(d.c[2] - Clamp(d.c[2], b.y0, b.y1)) > Sq(d.r)
SideWallIndices == {SideRing(r, c) : r \in 0 .. gen.sub_h, c \in Columns}
CapIndices ==
    {SouthPole, NorthPole} \cup {BottomRing(c) : c \in Columns}
                           \cup {TopRing(c) : c \in Columns}

\* C10: for every valid Cylinder(u,h) the top-cap disc, the bottom-cap disc
\* and the side-wall rectangle are pairwise disjoint with a margin between
\* them; no side-wall vertex's uv lies inside or on a cap disc, no cap-ring
\* or pole vertex's uv lies inside the side-wall rectangle, and every uv
\* lies in the unit square.
C10_AtlasRegionsDisjoint ==
    ValidCylinder =>
        /\ DiscsApart(TopDisc, BottomDisc)
        /\ DiscApartFromBox(TopDisc, SideBox)
        /\ DiscApartFromBox(BottomDisc, SideBox)
        /\ \A i \in SideWallIndices :
              LET uv == CylinderSharedVertex(gen, i).uv
              IN  ~InDisc(uv, TopDisc) /\ ~InDisc(uv, BottomDisc)
        /\ \A i \in CapIndices :
              ~InBox(CylinderSharedVertex(gen, i).uv, SideBox)
        /\ \A i \in 0 .. (DocVertexCount - 1) :
              LET uv == CylinderSharedVertex(gen, i).uv
              IN  /\ 0 <= uv[1] /\ uv[1] <= FX
                  /\ 0 <= uv[2] /\ uv[2] <= FX

=============================================================================
